---- MODULE Spec2Model ----
(***************************************************************************)
(* Model of src/heap/remembered-set.h: RememberedSet<direction> (the       *)
(* per-chunk slot tables of the two pointer directions, the typed          *)
(* old-to-old table, the filtering scans and the evacuation wrapper) and   *)
(* LocalSlotsBuffer (the chained recording buffer).                        *)
(*                                                                         *)
(* SlotSet, TypedSlotSet, MemoryChunk and MemoryChunkIterator live in      *)
(* slot-set.h and spaces.h; they are modelled from their contracts.        *)
(* Addresses and offsets are counted in slots (words), and Page::kPageSize *)
(* and kBufferSize are scaled down.                                        *)
(***************************************************************************)
EXTENDS Integers, Sequences, FiniteSets, TLC

\* Page::kPageSize, in slots (scaled down from 1 MB; used at remembered-set.h:29).
kPageSize == 3

\* LocalSlotsBuffer::kBufferSize (remembered-set.h:275), scaled down from 16K.
kBufferSize == 3

\* The number of SlotType tags; entries below it are tag markers.
NUMBER_OF_SLOT_TYPES == 2

\* TypedSlotSet::kMaxOffset (DCHECK of InsertTyped), scaled down from 1 << 29.
kMaxOffset == 8

\* Bound on the number of slots recorded over all tables of the heap.
MaxSlots == 2

\* Bound on the number of tables (slot sets, typed slot sets) allocated at a time.
MaxTables == 2

\* Bound on the number of Record calls made on one LocalSlotsBuffer.
MaxRecords == 4

NULL == <<>>

OLD_TO_OLD == "OLD_TO_OLD"
OLD_TO_NEW == "OLD_TO_NEW"
PointerDirection == {OLD_TO_OLD, OLD_TO_NEW}

KEEP_SLOT == "KEEP_SLOT"
REMOVE_SLOT == "REMOVE_SLOT"

ALL == "ALL"
ALL_BUT_MAP_SPACE == "ALL_BUT_MAP_SPACE"
ALL_BUT_CODE_SPACE == "ALL_BUT_CODE_SPACE"

SlotTypes == 0 .. (NUMBER_OF_SLOT_TYPES - 1)

(***************************************************************************)
(* The heap: one page of old space, one of map space, one of code space    *)
(* and one large-object chunk that spans two kPageSize units, the second   *)
(* one partly.                                                             *)
(***************************************************************************)
Chunks == {"old", "map", "code", "lo"}

\* chunk->size()
ChunkSize(chunk) == IF chunk = "lo" THEN kPageSize + 2 ELSE kPageSize

\* chunk->address(): the chunks lie apart, none at address 0.
ChunkAddress(chunk) ==
    LET gap == 2 * kPageSize + 4
    IN  CASE chunk = "old" -> gap
          [] chunk = "map" -> 2 * gap
          [] chunk = "code" -> 3 * gap
          [] chunk = "lo" -> 4 * gap

\* page->Contains(addr)
Contains(chunk, addr) ==
    ChunkAddress(chunk) <= addr /\ addr < ChunkAddress(chunk) + ChunkSize(chunk)

ChunkAddrs(chunk) ==
    ChunkAddress(chunk) .. (ChunkAddress(chunk) + ChunkSize(chunk) - 1)

AllAddrs == UNION {ChunkAddrs(chunk) : chunk \in Chunks}

\* MemoryChunkIterator: old space, map space, code space, large-object space,
\* skipping the space the mode excludes.
MemoryChunkIterator(mode) ==
    SelectSeq(<<"old", "map", "code", "lo">>,
              LAMBDA chunk : /\ ~(mode = ALL_BUT_MAP_SPACE /\ chunk = "map")
                             /\ ~(mode = ALL_BUT_CODE_SPACE /\ chunk = "code"))

SeqToSet(s) == {s[i] : i \in 1 .. Len(s)}

RECURSIVE SortedSeq(_)
\* The elements of a finite set of integers in increasing order.
SortedSeq(S) ==
    IF S = {} THEN <<>>
    ELSE LET m == CHOOSE x \in S : \A y \in S : x <= y
         IN  <<m>> \o SortedSeq(S \ {m})

RECURSIVE Flatten(_)
Flatten(ss) == IF ss = <<>> THEN <<>> ELSE Head(ss) \o Flatten(Tail(ss))

(***************************************************************************)
(* SlotSet (slot-set.h): the offsets recorded for one kPageSize unit, and  *)
(* the address of the unit, which Iterate adds to an offset to hand the    *)
(* callback an address.                                                    *)
(***************************************************************************)
\* SlotSet::SetPageStart on a fresh, empty set
NewSlotSet(page_start) == [page_start |-> page_start, slots |-> {}]

\* SlotSet::Insert(slot_offset)
SlotSetInsert(set, slot_offset) == [set EXCEPT !.slots = @ \cup {slot_offset}]

\* SlotSet::Remove(slot_offset)
SlotSetRemove(set, slot_offset) == [set EXCEPT !.slots = @ \ {slot_offset}]

\* SlotSet::RemoveRange(start_offset, end_offset)
SlotSetRemoveRange(set, start_offset, end_offset) ==
    [set EXCEPT !.slots = {o \in @ : ~(start_offset <= o /\ o < end_offset)}]

\* The verdict of a scan callback that keeps the addresses in keep.
Callback(keep, addr) == IF addr \in keep THEN KEEP_SLOT ELSE REMOVE_SLOT

\* SlotSet::Iterate(callback): the callback sees page_start + offset for every
\* recorded offset, in increasing order; the offsets with a KEEP_SLOT verdict
\* stay and their number is returned.
SlotSetIterate(set, keep) ==
    LET kept == {o \in set.slots : Callback(keep, set.page_start + o) = KEEP_SLOT}
    IN  [set     |-> [set EXCEPT !.slots = kept],
         count   |-> Cardinality(kept),
         visited |-> [i \in 1 .. Cardinality(set.slots) |->
                         set.page_start + SortedSeq(set.slots)[i]]]

\* The number of kPageSize units of a chunk (remembered-set.h:69).
PagesOf(chunk) == (ChunkSize(chunk) + kPageSize - 1) \div kPageSize

\* MemoryChunk::AllocateOldToNewSlots / AllocateOldToOldSlots: one empty SlotSet
\* per unit of the chunk, each told the address of its unit.
NewSlotSetArray(chunk) ==
    [page \in 0 .. (PagesOf(chunk) - 1) |->
        NewSlotSet(ChunkAddress(chunk) + page * kPageSize)]

(***************************************************************************)
(* TypedSlotSet (slot-set.h): (type, offset) pairs of one chunk.           *)
(***************************************************************************)
\* MemoryChunk::AllocateTypedOldToOldSlots
NewTypedSlotSet(chunk) == [page_start |-> ChunkAddress(chunk), slots |-> {}]

\* TypedSlotSet::Insert(type, offset)
TypedSlotSetInsert(set, slot_type, offset) ==
    [set EXCEPT !.slots = @ \cup {<<slot_type, offset>>}]

\* The addresses a typed callback is called with, as <<type, address>>.
TypedEntries(set) == {<<e[1], set.page_start + e[2]>> : e \in set.slots}

RECURSIVE SortedPairs(_)
\* The elements of a finite set of <<type, address>> pairs, by address then type.
SortedPairs(S) ==
    IF S = {} THEN <<>>
    ELSE LET m == CHOOSE x \in S : \A y \in S :
                     x[2] < y[2] \/ (x[2] = y[2] /\ x[1] <= y[1])
         IN  <<m>> \o SortedPairs(S \ {m})

\* TypedSlotSet::Iterate(callback): callback(type, page_start + offset) for every
\* entry; the entries with a KEEP_SLOT verdict stay and their number is returned.
TypedSlotSetIterate(set, verdict(_, _)) ==
    LET kept == {e \in set.slots :
                    verdict(e[1], set.page_start + e[2]) = KEEP_SLOT}
    IN  [set     |-> [set EXCEPT !.slots = kept],
         count   |-> Cardinality(kept),
         visited |-> SortedPairs(TypedEntries(set))]

(***************************************************************************)
(* State.                                                                  *)
(***************************************************************************)
VARIABLES
    old_to_new_slots,        \* chunk -> NULL or its array of SlotSets
    old_to_old_slots,        \* chunk -> NULL or its array of SlotSets
    typed_old_to_old_slots,  \* chunk -> NULL or its TypedSlotSet
    mem,                     \* address of a slot -> where the object it points to lives
    top_,                    \* LocalSlotsBuffer: the node chain, head node first
    lastOp,                  \* the operation that ran last, with its arguments
    visited,                 \* what the scan callback was called with, in order
    called,                  \* the slots the wrapped callback was called with, in order
    recorded,                \* the Record calls made on the buffer, in order
    instance,                \* the direction of the RememberedSet a run exercises
    dcheck_failed,           \* a DCHECK failed: a checked build has aborted
    scanning                 \* an Iterate that is under way, or NULL

tables == <<old_to_new_slots, old_to_old_slots, typed_old_to_old_slots>>
bufvars == <<top_, recorded, instance, scanning>>
vars == <<old_to_new_slots, old_to_old_slots, typed_old_to_old_slots, mem, top_,
          lastOp, visited, called, recorded, instance, dcheck_failed, scanning>>

\* Where the object a slot points to lives: the from or the to half of the young
\* generation, or outside the young generation.
Spaces == {"from", "to", "old"}

\* heap->InFromSpace(object), heap->InToSpace(object), heap->InNewSpace(object)
InFromSpace(object) == object = "from"
InToSpace(object) == object = "to"
InNewSpace(object) == object \in {"from", "to"}

\* present: a slot the operation names (or one in the range it names) was recorded
\* when the operation began; for ClearAll, some table it clears was allocated.
Op(op, direction, chunk, addr, end, type, keep, present) ==
    [op |-> op, direction |-> direction, chunk |-> chunk, addr |-> addr,
     end |-> end, type |-> type, keep |-> keep, present |-> present]

\* LocalSlotsBuffer::Node(next_node): count(0), the buffer not yet written.
NewNode == [count |-> 0, buffer |-> [i \in 0 .. (kBufferSize - 1) |-> -1]]

InitHeap ==
    /\ old_to_new_slots = [chunk \in Chunks |-> NULL]
    /\ old_to_old_slots = [chunk \in Chunks |-> NULL]
    /\ typed_old_to_old_slots = [chunk \in Chunks |-> NULL]
    /\ mem = [addr \in AllAddrs |-> "old"]
    /\ top_ = <<NewNode>>
    /\ lastOp = Op("none", "none", "none", 0, 0, 0, {}, FALSE)
    /\ visited = <<>>
    /\ called = <<>>
    /\ recorded = <<>>
    /\ dcheck_failed = FALSE
    /\ scanning = NULL

\* A run exercises RememberedSet<direction> for one direction.
Init == InitHeap /\ instance \in PointerDirection

(***************************************************************************)
(* RememberedSet<direction>                                                *)
(***************************************************************************)
\* RememberedSet::GetSlotSet(chunk)
GetSlotSet(direction, chunk) ==
    IF direction = OLD_TO_OLD THEN old_to_old_slots[chunk]
    ELSE old_to_new_slots[chunk]

\* The table of every chunk, for one direction.
SlotSetsOf(direction) ==
    IF direction = OLD_TO_OLD THEN old_to_old_slots ELSE old_to_new_slots

\* Mutant of StoreSlotSets: the direction is mixed up for OLD_TO_NEW, which
\* writes the old-to-old table.
StoreSlotSetsOldToOld(direction, slot_sets) ==
    old_to_old_slots' = slot_sets /\ UNCHANGED old_to_new_slots

\* The writes made through the pointers GetSlotSet / AllocateSlotSet return, and
\* by ReleaseSlotSet: they reach the table of the direction and no other.
StoreSlotSets(direction, slot_sets) ==
    IF direction = OLD_TO_OLD
    THEN old_to_old_slots' = slot_sets /\ UNCHANGED old_to_new_slots
    ELSE old_to_new_slots' = slot_sets /\ UNCHANGED old_to_old_slots

\* The addresses a table records: what its SlotSets hand to a scan callback.
AddrsIn(slot_set) ==
    IF slot_set = NULL THEN {}
    ELSE UNION {{slot_set[page].page_start + o : o \in slot_set[page].slots} :
                   page \in DOMAIN slot_set}

RecordedAddrs(direction, chunk) == AddrsIn(GetSlotSet(direction, chunk))

TypedIn(slots) == IF slots = NULL THEN {} ELSE TypedEntries(slots)

\* The number of slots recorded in all the tables of the heap.
TotalRecorded ==
    LET n(chunk) == Cardinality(AddrsIn(old_to_new_slots[chunk]))
                    + Cardinality(AddrsIn(old_to_old_slots[chunk]))
                    + Cardinality(TypedIn(typed_old_to_old_slots[chunk]))
    IN  n("old") + n("map") + n("code") + n("lo")

\* The number of tables allocated in the heap.
TotalTables ==
    Cardinality({chunk \in Chunks : old_to_new_slots[chunk] # NULL})
    + Cardinality({chunk \in Chunks : old_to_old_slots[chunk] # NULL})
    + Cardinality({chunk \in Chunks : typed_old_to_old_slots[chunk] # NULL})

\* RememberedSet::AllocateSlotSet(chunk): the fresh table installed in the chunk.
AllocateSlotSet(chunk) == NewSlotSetArray(chunk)

\* Mutant of InsertInto: the unit index is forgotten.
InsertIntoFirstUnit(slot_set, page, slot_addr) ==
    LET offset == slot_addr - ChunkAddress(page)
    IN  [slot_set EXCEPT ![0] = SlotSetInsert(@, offset % kPageSize)]

\* Insert, lines 28-29: the offset picks the unit and the offset within it.
InsertInto(slot_set, page, slot_addr) ==
    LET offset == slot_addr - ChunkAddress(page)
    IN  [slot_set EXCEPT ![offset \div kPageSize] =
            SlotSetInsert(@, offset % kPageSize)]

\* RememberedSet::Insert(page, slot_addr)
Insert(direction, page, slot_addr) ==
    /\ ~dcheck_failed
    /\ Contains(page, slot_addr)
    /\ slot_addr \in RecordedAddrs(direction, page) \/ TotalRecorded < MaxSlots
    /\ GetSlotSet(direction, page) # NULL \/ TotalTables < MaxTables
    /\ LET slot_set == IF GetSlotSet(direction, page) = NULL
                       THEN AllocateSlotSet(page)
                       ELSE GetSlotSet(direction, page)
       IN  StoreSlotSets(direction,
               [SlotSetsOf(direction) EXCEPT
                   ![page] = InsertInto(slot_set, page, slot_addr)])
    /\ lastOp' = Op("Insert", direction, page, slot_addr, 0, 0, {},
                    slot_addr \in RecordedAddrs(direction, page))
    /\ visited' = <<>> /\ called' = <<>>
    /\ UNCHANGED <<typed_old_to_old_slots, mem, bufvars, dcheck_failed>>

\* Mutant of RemoveFrom: the offset is not reduced to the unit.
RemoveFromWholeOffset(slot_set, page, slot_addr) ==
    LET offset == slot_addr - ChunkAddress(page)
    IN  [slot_set EXCEPT ![offset \div kPageSize] = SlotSetRemove(@, offset)]

\* Remove, lines 39-40.
RemoveFrom(slot_set, page, slot_addr) ==
    LET offset == slot_addr - ChunkAddress(page)
    IN  [slot_set EXCEPT ![offset \div kPageSize] =
            SlotSetRemove(@, offset % kPageSize)]

\* RememberedSet::Remove(page, slot_addr)
Remove(direction, page, slot_addr) ==
    /\ ~dcheck_failed
    /\ Contains(page, slot_addr)
    /\ IF GetSlotSet(direction, page) # NULL
       THEN StoreSlotSets(direction,
                [SlotSetsOf(direction) EXCEPT
                    ![page] = RemoveFrom(@, page, slot_addr)])
       ELSE UNCHANGED <<old_to_new_slots, old_to_old_slots>>
    /\ lastOp' = Op("Remove", direction, page, slot_addr, 0, 0, {},
                    slot_addr \in RecordedAddrs(direction, page))
    /\ visited' = <<>> /\ called' = <<>>
    /\ UNCHANGED <<typed_old_to_old_slots, mem, bufvars, dcheck_failed>>

\* Mutant of RemoveRangeFrom: the range includes its end.
RemoveRangeFromInclusive(slot_set, page, start, end) ==
    LET start_offset == start - ChunkAddress(page)
        end_offset == end - ChunkAddress(page)
    IN  [slot_set EXCEPT ![0] = SlotSetRemoveRange(@, start_offset, end_offset + 1)]

\* RemoveRange, lines 49-54, when its DCHECKs hold: the range is removed from
\* the first SlotSet of the array.
RemoveRangeFrom(slot_set, page, start, end) ==
    LET start_offset == start - ChunkAddress(page)
        end_offset == end - ChunkAddress(page)
    IN  [slot_set EXCEPT ![0] = SlotSetRemoveRange(@, start_offset, end_offset)]

\* What slot_set->RemoveRange can leave behind when end_offset exceeds kPageSize
\* in an unchecked build: the first SlotSet loses its offsets from start_offset
\* on, and the accesses past its end may clear anything in the SlotSets that
\* follow it in the array.
RemoveRangePastUnit(slot_set, page, start, end) ==
    {[unit \in DOMAIN slot_set |->
         IF unit = 0 THEN RemoveRangeFrom(slot_set, page, start, end)[0]
         ELSE [slot_set[unit] EXCEPT !.slots = @ \ lost[unit]]] :
     lost \in [DOMAIN slot_set -> SUBSET (0 .. (kPageSize - 1))]}

\* RememberedSet::RemoveRange(page, start, end)
RemoveRange(direction, page, start, end) ==
    /\ ~dcheck_failed
    /\ ChunkAddress(page) <= start /\ start < end
    /\ end <= ChunkAddress(page) + ChunkSize(page)
    /\ lastOp' = Op("RemoveRange", direction, page, start, end, 0, {},
                    \E a \in RecordedAddrs(direction, page) : start <= a /\ a < end)
    /\ visited' = <<>> /\ called' = <<>>
    /\ UNCHANGED <<typed_old_to_old_slots, mem, bufvars>>
    /\ LET slot_set == GetSlotSet(direction, page)
           end_offset == end - ChunkAddress(page)
       IN  IF slot_set = NULL
           THEN UNCHANGED <<old_to_new_slots, old_to_old_slots, dcheck_failed>>
           ELSE IF end_offset <= kPageSize
           THEN /\ StoreSlotSets(direction,
                       [SlotSetsOf(direction) EXCEPT
                           ![page] = RemoveRangeFrom(@, page, start, end)])
                /\ UNCHANGED dcheck_failed
           ELSE \* DCHECK_LE(end_offset, Page::kPageSize) does not hold
                \/ /\ dcheck_failed' = TRUE
                   /\ UNCHANGED <<old_to_new_slots, old_to_old_slots>>
                \/ /\ \E left \in RemoveRangePastUnit(slot_set, page, start, end) :
                          StoreSlotSets(direction,
                              [SlotSetsOf(direction) EXCEPT ![page] = left])
                   /\ UNCHANGED dcheck_failed

RECURSIVE SumCounts(_, _)
\* new_count += ... over the units 0 .. pages - 1
SumCounts(results, pages) ==
    IF pages = 0 THEN 0
    ELSE SumCounts(results, pages - 1) + results[pages - 1].count

\* Mutant of IterateChunk: new_count is assigned, not accumulated, so it is the
\* count of the last unit.
IterateChunkLastCount(slots, chunk, keep) ==
    LET pages == PagesOf(chunk)
        results == [page \in 0 .. (pages - 1) |-> SlotSetIterate(slots[page], keep)]
        new_count == results[pages - 1].count
    IN  [slots   |-> IF new_count = 0 THEN NULL
                     ELSE [page \in 0 .. (pages - 1) |-> results[page].set],
         visited |-> Flatten([i \in 1 .. pages |-> results[i - 1].visited])]

\* Mutant of IterateChunk: an emptied table is not released.
IterateChunkNoRelease(slots, chunk, keep) ==
    LET pages == PagesOf(chunk)
        results == [page \in 0 .. (pages - 1) |-> SlotSetIterate(slots[page], keep)]
    IN  [slots   |-> [page \in 0 .. (pages - 1) |-> results[page].set],
         visited |-> Flatten([i \in 1 .. pages |-> results[i - 1].visited])]

\* Iterate, lines 67-77, for one chunk that has a table: every unit is scanned,
\* and the table is released when no slot was kept in any of them.
IterateChunk(slots, chunk, keep) ==
    LET pages == PagesOf(chunk)
        results == [page \in 0 .. (pages - 1) |-> SlotSetIterate(slots[page], keep)]
        new_count == SumCounts(results, pages)
    IN  [slots   |-> IF new_count = 0 THEN NULL
                     ELSE [page \in 0 .. (pages - 1) |-> results[page].set],
         visited |-> Flatten([i \in 1 .. pages |-> results[i - 1].visited])]

\* Mutant of IterateMode: every direction scans all the chunks.
IterateModeAll(direction) == ALL

\* The chunks Iterate visits (lines 62-64).
IterateMode(direction) ==
    IF direction = OLD_TO_OLD THEN ALL ELSE ALL_BUT_CODE_SPACE

\* Iterate, lines 61-79: the tables and the calls of the callback after the loop
\* over the chunks the iterator yields.
IterateAll(direction, keep) ==
    LET it == MemoryChunkIterator(IterateMode(direction))
        scan(chunk) == IterateChunk(GetSlotSet(direction, chunk), chunk, keep)
    IN  [slot_sets |-> [chunk \in Chunks |->
                           IF chunk \in SeqToSet(it)
                              /\ GetSlotSet(direction, chunk) # NULL
                           THEN scan(chunk).slots
                           ELSE GetSlotSet(direction, chunk)],
         visited   |-> Flatten([i \in 1 .. Len(it) |->
                           IF GetSlotSet(direction, it[i]) # NULL
                           THEN scan(it[i]).visited ELSE <<>>])]

AllRecorded(direction) == UNION {RecordedAddrs(direction, chunk) : chunk \in Chunks}

\* RememberedSet::Iterate(heap, callback), the callback keeping the slots in keep
Iterate(direction, keep) ==
    /\ ~dcheck_failed
    /\ keep \subseteq AllRecorded(direction)
    /\ StoreSlotSets(direction, IterateAll(direction, keep).slot_sets)
    /\ visited' = IterateAll(direction, keep).visited
    /\ called' = <<>>
    /\ lastOp' = Op("Iterate", direction, "none", 0, 0, 0, keep, FALSE)
    /\ UNCHANGED <<typed_old_to_old_slots, mem, bufvars, dcheck_failed>>

\* Mutant of InsertTypedInto: the address is stored, not the offset.
InsertTypedIntoRaw(slot_set, page, slot_type, slot_addr) ==
    TypedSlotSetInsert(slot_set, slot_type, slot_addr)

\* InsertTyped, lines 103-105.
InsertTypedInto(slot_set, page, slot_type, slot_addr) ==
    LET offset == slot_addr - ChunkAddress(page)
    IN  TypedSlotSetInsert(slot_set, slot_type, offset)

\* RememberedSet::InsertTyped(page, slot_type, slot_addr); the STATIC_ASSERT lets
\* it exist for OLD_TO_OLD only.
InsertTyped(direction, page, slot_type, slot_addr) ==
    LET slot_set == IF typed_old_to_old_slots[page] = NULL
                    THEN NewTypedSlotSet(page)
                    ELSE typed_old_to_old_slots[page]
        offset == slot_addr - ChunkAddress(page)
    IN  /\ ~dcheck_failed
        /\ direction = OLD_TO_OLD
        /\ Contains(page, slot_addr)
        /\ offset < kMaxOffset
        /\ \/ <<slot_type, slot_addr>> \in TypedIn(typed_old_to_old_slots[page])
           \/ TotalRecorded < MaxSlots
        /\ typed_old_to_old_slots[page] # NULL \/ TotalTables < MaxTables
        /\ typed_old_to_old_slots' =
               [typed_old_to_old_slots EXCEPT
                   ![page] = InsertTypedInto(slot_set, page, slot_type, slot_addr)]
        /\ lastOp' = Op("InsertTyped", direction, page, slot_addr, 0, slot_type, {},
                        <<slot_type, slot_addr>> \in TypedIn(typed_old_to_old_slots[page]))
        /\ visited' = <<>> /\ called' = <<>>
        /\ UNCHANGED <<old_to_new_slots, old_to_old_slots, mem, bufvars, dcheck_failed>>

\* Mutant of RangeVerdict: the range includes its end.
RangeVerdictInclusive(start, end, slot_type, slot_addr) ==
    IF start <= slot_addr /\ slot_addr <= end THEN REMOVE_SLOT ELSE KEEP_SLOT

\* The callback of RemoveRangeTyped (lines 113-115).
RangeVerdict(start, end, slot_type, slot_addr) ==
    IF start <= slot_addr /\ slot_addr < end THEN REMOVE_SLOT ELSE KEEP_SLOT

\* RememberedSet::RemoveRangeTyped(page, start, end): no STATIC_ASSERT, the typed
\* old-to-old table whatever the direction.
RemoveRangeTyped(direction, page, start, end) ==
    /\ ~dcheck_failed
    /\ ChunkAddress(page) <= start /\ start < end
    /\ end <= ChunkAddress(page) + ChunkSize(page)
    /\ IF typed_old_to_old_slots[page] # NULL
       THEN typed_old_to_old_slots' =
                [typed_old_to_old_slots EXCEPT
                    ![page] = TypedSlotSetIterate(@,
                        LAMBDA t, a : RangeVerdict(start, end, t, a)).set]
       ELSE UNCHANGED typed_old_to_old_slots
    /\ lastOp' = Op("RemoveRangeTyped", direction, page, start, end, 0, {},
                    \E e \in TypedIn(typed_old_to_old_slots[page]) :
                        start <= e[2] /\ e[2] < end)
    /\ visited' = <<>> /\ called' = <<>>
    /\ UNCHANGED <<old_to_new_slots, old_to_old_slots, mem, bufvars, dcheck_failed>>

\* The verdict of a typed scan callback that keeps the entries in keep.
TypedCallback(keep, slot_type, slot_addr) ==
    IF <<slot_type, slot_addr>> \in keep THEN KEEP_SLOT ELSE REMOVE_SLOT

\* Mutant of IterateTypedChunk: an emptied typed table is not released.
IterateTypedChunkNoRelease(slots, keep) ==
    LET result == TypedSlotSetIterate(slots, LAMBDA t, a : TypedCallback(keep, t, a))
    IN  [slots |-> result.set, visited |-> result.visited]

\* IterateTyped, lines 127-133, for one chunk that has a typed table.
IterateTypedChunk(slots, keep) ==
    LET result == TypedSlotSetIterate(slots, LAMBDA t, a : TypedCallback(keep, t, a))
        new_count == result.count
    IN  [slots   |-> IF new_count = 0 THEN NULL ELSE result.set,
         visited |-> result.visited]

\* IterateTyped, lines 123-135.
IterateTypedAll(keep) ==
    LET it == MemoryChunkIterator(ALL_BUT_MAP_SPACE)
        scan(chunk) == IterateTypedChunk(typed_old_to_old_slots[chunk], keep)
    IN  [slot_sets |-> [chunk \in Chunks |->
                           IF chunk \in SeqToSet(it)
                              /\ typed_old_to_old_slots[chunk] # NULL
                           THEN scan(chunk).slots
                           ELSE typed_old_to_old_slots[chunk]],
         visited   |-> Flatten([i \in 1 .. Len(it) |->
                           IF typed_old_to_old_slots[it[i]] # NULL
                           THEN scan(it[i]).visited ELSE <<>>])]

AllTyped == UNION {TypedIn(typed_old_to_old_slots[chunk]) : chunk \in Chunks}

\* RememberedSet::IterateTyped(heap, callback), the callback keeping the entries
\* in keep: no STATIC_ASSERT, the typed old-to-old tables whatever the direction.
IterateTyped(direction, keep) ==
    /\ ~dcheck_failed
    /\ keep \subseteq AllTyped
    /\ typed_old_to_old_slots' = IterateTypedAll(keep).slot_sets
    /\ visited' = IterateTypedAll(keep).visited
    /\ called' = <<>>
    /\ lastOp' = Op("IterateTyped", direction, "none", 0, 0, 0, keep, FALSE)
    /\ UNCHANGED <<old_to_new_slots, old_to_old_slots, mem, bufvars, dcheck_failed>>

\* Mutant of ClearedOf: the iterator skips map space.
ClearedOfButMapSpace(slot_sets) ==
    [chunk \in Chunks |->
        IF chunk \in SeqToSet(MemoryChunkIterator(ALL_BUT_MAP_SPACE)) THEN NULL
        ELSE slot_sets[chunk]]

\* ClearAll, lines 140-145: the tables of the chunks the iterator yields.
ClearedOf(slot_sets) ==
    [chunk \in Chunks |->
        IF chunk \in SeqToSet(MemoryChunkIterator(ALL)) THEN NULL
        ELSE slot_sets[chunk]]

\* RememberedSet::ClearAll(heap); the STATIC_ASSERT lets it exist for OLD_TO_OLD
\* only.
ClearAll(direction) ==
    /\ ~dcheck_failed
    /\ direction = OLD_TO_OLD
    /\ old_to_old_slots' = ClearedOf(old_to_old_slots)
    /\ typed_old_to_old_slots' = ClearedOf(typed_old_to_old_slots)
    /\ lastOp' = Op("ClearAll", direction, "none", 0, 0, 0, {},
                    \E chunk \in Chunks : \/ old_to_old_slots[chunk] # NULL
                                          \/ typed_old_to_old_slots[chunk] # NULL)
    /\ visited' = <<>> /\ called' = <<>>
    /\ UNCHANGED <<old_to_new_slots, mem, bufvars, dcheck_failed>>

\* The chunks a scan of the direction visits.
ScanScope(direction) == SeqToSet(MemoryChunkIterator(IterateMode(direction)))

\* The chunks whose slots the mutator records: code pages hold no pointer into
\* the young generation (which is why the OLD_TO_NEW scan skips them), and
\* map pages embed no typed slot (which is why the typed scan skips them).
RecordingChunks(direction) == ScanScope(direction)
TypedRecordingChunks == SeqToSet(MemoryChunkIterator(ALL_BUT_MAP_SPACE))

\* The addresses of a chunk, and the address one past its end.
Bounds(chunk) == ChunkAddress(chunk) .. (ChunkAddress(chunk) + ChunkSize(chunk))

\* The chunks the mutator of the untyped runs works on: a page that both
\* directions scan, a page that OLD_TO_NEW skips, and the large chunk.
UntypedChunks == {"old", "code", "lo"}

\* The untyped operations of RememberedSet<instance>.
Next ==
    \/ \E c \in RecordingChunks(instance) \cap UntypedChunks : \E a \in ChunkAddrs(c) :
           Insert(instance, c, a)
    \/ \E c \in UntypedChunks : \E a \in ChunkAddrs(c) : Remove(instance, c, a)
    \/ \E c \in UntypedChunks : \E s, e \in Bounds(c) : RemoveRange(instance, c, s, e)
    \/ \E keep \in SUBSET AllRecorded(instance) : Iterate(instance, keep)

Spec == Init /\ [][Next]_vars

\* The typed operations of RememberedSet<OLD_TO_OLD>.
InitTyped == InitHeap /\ instance = OLD_TO_OLD

NextTyped ==
    \/ \E c \in TypedRecordingChunks, t \in SlotTypes : \E a \in ChunkAddrs(c) :
           InsertTyped(instance, c, t, a)
    \/ \E c \in Chunks : \E s, e \in Bounds(c) : RemoveRangeTyped(instance, c, s, e)
    \/ \E keep \in SUBSET AllTyped : IterateTyped(instance, keep)

SpecTyped == InitTyped /\ [][NextTyped]_vars

\* ClearAll between the inserts and the scans of RememberedSet<OLD_TO_OLD>.
NextClear ==
    \/ \E c \in Chunks : \E a \in ChunkAddrs(c) : Insert(OLD_TO_OLD, c, a)
    \/ \E c \in TypedRecordingChunks, t \in SlotTypes : \E a \in ChunkAddrs(c) :
           InsertTyped(instance, c, t, a)
    \/ \E keep \in SUBSET AllRecorded(OLD_TO_OLD) : Iterate(OLD_TO_OLD, keep)
    \/ \E keep \in SUBSET AllTyped : IterateTyped(instance, keep)
    \/ ClearAll(instance)

SpecClear == InitTyped /\ [][NextClear]_vars

\* The chunk an address lies in.
ChunkOf(addr) == CHOOSE chunk \in Chunks : Contains(chunk, addr)

\* The slots the runs of both instantiations use: one of each page and one of
\* the second unit of the large chunk.
AllSlots ==
    {ChunkAddress("old") + 1, ChunkAddress("map"), ChunkAddress("code"),
     ChunkAddress("lo") + kPageSize}

\* RememberedSet<OLD_TO_OLD> and RememberedSet<OLD_TO_NEW> at work on one heap:
\* every static member function, called for either direction on any chunk.
InitAll == InitHeap /\ instance = "both"

NextAll ==
    \/ \E d \in PointerDirection, a \in AllSlots : Insert(d, ChunkOf(a), a)
    \/ \E d \in PointerDirection, a \in AllSlots : Remove(d, ChunkOf(a), a)
    \/ \E d \in PointerDirection, a \in AllSlots : RemoveRange(d, ChunkOf(a), a, a + 1)
    \/ \E d \in PointerDirection : \E keep \in SUBSET AllRecorded(d) : Iterate(d, keep)
    \/ \E d \in PointerDirection, t \in SlotTypes, a \in AllSlots :
           InsertTyped(d, ChunkOf(a), t, a)
    \/ \E d \in PointerDirection, a \in AllSlots : RemoveRangeTyped(d, ChunkOf(a), a, a + 1)
    \/ \E d \in PointerDirection : \E keep \in SUBSET AllTyped : IterateTyped(d, keep)
    \/ \E d \in PointerDirection : ClearAll(d)

SpecAll == InitAll /\ [][NextAll]_vars

(***************************************************************************)
(* The evacuation wrapper of RememberedSet<OLD_TO_NEW>.                    *)
(***************************************************************************)
\* Mutant of Wrapper: a slot is kept when it points anywhere into the young
\* generation after the callback.
WrapperKeepsNewSpace(memory, slot_address, slot_callback) ==
    LET object == memory[slot_address]
    IN  IF InFromSpace(object)
        THEN LET updated == slot_callback[slot_address]
             IN  [called |-> TRUE, value |-> updated, dcheck |-> TRUE,
                  result |-> IF InNewSpace(updated) THEN KEEP_SLOT ELSE REMOVE_SLOT]
        ELSE [called |-> FALSE, value |-> object, dcheck |-> ~InNewSpace(object),
              result |-> REMOVE_SLOT]

\* Mutant of Wrapper: a slot that does not point into from-space is kept.
WrapperKeepsOthers(memory, slot_address, slot_callback) ==
    LET object == memory[slot_address]
    IN  IF InFromSpace(object)
        THEN LET updated == slot_callback[slot_address]
             IN  [called |-> TRUE, value |-> updated, dcheck |-> TRUE,
                  result |-> IF InToSpace(updated) THEN KEEP_SLOT ELSE REMOVE_SLOT]
        ELSE [called |-> FALSE, value |-> object, dcheck |-> ~InNewSpace(object),
              result |-> KEEP_SLOT]

\* Mutant of Wrapper: the negation of the DCHECK is lost.
WrapperAssertsNewSpace(memory, slot_address, slot_callback) ==
    LET object == memory[slot_address]
    IN  IF InFromSpace(object)
        THEN LET updated == slot_callback[slot_address]
             IN  [called |-> TRUE, value |-> updated, dcheck |-> TRUE,
                  result |-> IF InToSpace(updated) THEN KEEP_SLOT ELSE REMOVE_SLOT]
        ELSE [called |-> FALSE, value |-> object, dcheck |-> InNewSpace(object),
              result |-> REMOVE_SLOT]

\* RememberedSet::Wrapper(heap, slot_address, slot_callback), lines 184-205.
\* slot_callback[slot] is what the callback leaves in the slot. The result tells
\* whether the callback was called, the value of the slot afterwards, the
\* verdict, and whether DCHECK(!heap->InNewSpace(object)) held.
Wrapper(memory, slot_address, slot_callback) ==
    LET object == memory[slot_address]
    IN  IF InFromSpace(object)
        THEN LET updated == slot_callback[slot_address]
             IN  [called |-> TRUE, value |-> updated, dcheck |-> TRUE,
                  result |-> IF InToSpace(updated) THEN KEEP_SLOT ELSE REMOVE_SLOT]
        ELSE [called |-> FALSE, value |-> object, dcheck |-> ~InNewSpace(object),
              result |-> REMOVE_SLOT]

\* The recorded slots an OLD_TO_NEW scan would hand to the wrapper that point
\* into from-space: the ones the wrapped callback gets to see.
FromSlots == {a \in RecordedAddrs(OLD_TO_NEW, "old") \cup RecordedAddrs(OLD_TO_NEW, "map")
                    \cup RecordedAddrs(OLD_TO_NEW, "lo") : InFromSpace(mem[a])}

\* RememberedSet::IterateWithWrapper(heap, callback), lines 88-92: Iterate with
\* the wrapper as its callback. Where the DCHECK of the wrapper does not hold, a
\* checked build aborts at that slot and an unchecked build goes on.
IterateWithWrapper(slot_callback) ==
    LET order == IterateAll(OLD_TO_NEW, {}).visited
        w(a) == Wrapper(mem, a, slot_callback)
        keep == {a \in SeqToSet(order) : w(a).result = KEEP_SLOT}
        fails == {i \in 1 .. Len(order) : ~w(order[i]).dcheck}
        first == CHOOSE i \in fails : \A j \in fails : i <= j
        done(n) == {order[i] : i \in 1 .. n}
    IN  /\ ~dcheck_failed
        /\ instance = OLD_TO_NEW
        /\ lastOp' = Op("IterateWithWrapper", OLD_TO_NEW, "none", 0, 0, 0, keep, FALSE)
        /\ UNCHANGED <<old_to_old_slots, typed_old_to_old_slots, bufvars>>
        /\ \/ /\ old_to_new_slots' = IterateAll(OLD_TO_NEW, keep).slot_sets
              /\ visited' = order
              /\ called' = SelectSeq(order, LAMBDA a : w(a).called)
              /\ mem' = [a \in DOMAIN mem |->
                            IF a \in SeqToSet(order) THEN w(a).value ELSE mem[a]]
              /\ UNCHANGED dcheck_failed
           \/ /\ fails # {}
              /\ dcheck_failed' = TRUE
              /\ visited' = SubSeq(order, 1, first)
              /\ called' = SelectSeq(SubSeq(order, 1, first - 1), LAMBDA a : w(a).called)
              /\ mem' = [a \in DOMAIN mem |->
                            IF a \in done(first - 1) THEN w(a).value ELSE mem[a]]
              /\ UNCHANGED old_to_new_slots

\* The mutator stores a pointer into a slot.
Store(addr, object) ==
    /\ ~dcheck_failed
    /\ mem' = [mem EXCEPT ![addr] = object]
    /\ lastOp' = Op("Store", "none", "none", addr, 0, 0, {}, FALSE)
    /\ visited' = <<>> /\ called' = <<>>
    /\ UNCHANGED <<tables, bufvars, dcheck_failed>>

\* The slots the runs of the wrapper use: one of the old page and one of each
\* unit of the large chunk.
WrapperSlots ==
    {ChunkAddress("old") + 1, ChunkAddress("lo"), ChunkAddress("lo") + kPageSize}

InitWrapper == InitHeap /\ instance = OLD_TO_NEW

NextWrapper ==
    \/ \E a \in WrapperSlots : Insert(OLD_TO_NEW, ChunkOf(a), a)
    \/ \E a \in WrapperSlots, object \in Spaces : Store(a, object)
    \/ \E slot_callback \in [FromSlots -> Spaces] : IterateWithWrapper(slot_callback)

SpecWrapper == InitWrapper /\ [][NextWrapper]_vars

\* Scans that follow one another with nothing but Insert calls between them:
\* at first no slot points into to-space, which is empty when a scavenge
\* begins.
InitScans ==
    /\ old_to_new_slots = [chunk \in Chunks |-> NULL]
    /\ old_to_old_slots = [chunk \in Chunks |-> NULL]
    /\ typed_old_to_old_slots = [chunk \in Chunks |-> NULL]
    /\ mem \in {memory \in [AllAddrs -> {"from", "old"}] :
                   \A a \in AllAddrs \ WrapperSlots : memory[a] = "old"}
    /\ top_ = <<NewNode>>
    /\ lastOp = Op("none", "none", "none", 0, 0, 0, {}, FALSE)
    /\ visited = <<>>
    /\ called = <<>>
    /\ recorded = <<>>
    /\ dcheck_failed = FALSE
    /\ scanning = NULL
    /\ instance = OLD_TO_NEW

NextScans ==
    \/ \E a \in WrapperSlots : Insert(OLD_TO_NEW, ChunkOf(a), a)
    \/ \E slot_callback \in [FromSlots -> Spaces] : IterateWithWrapper(slot_callback)

SpecScans == InitScans /\ [][NextScans]_vars

(***************************************************************************)
(* Iterate, statement by statement, with the mutator at work meanwhile.    *)
(* scanning holds the locals of the Iterate under way: the chunks the      *)
(* iterator has yet to yield (the first of them is chunk once its units    *)
(* have been visited), the callback, and new_count, -1 outside lines       *)
(* 70-76.                                                                  *)
(***************************************************************************)
\* Mutant of VisitUnits: new_count counts the slots the callback removed.
VisitUnitsCountsRemoved(slots, chunk, keep) ==
    LET pages == PagesOf(chunk)
        results == [page \in 0 .. (pages - 1) |-> SlotSetIterate(slots[page], keep)]
    IN  [slots     |-> [page \in 0 .. (pages - 1) |-> results[page].set],
         new_count |-> Cardinality(AddrsIn(slots)) - SumCounts(results, pages),
         visited   |-> Flatten([i \in 1 .. pages |-> results[i - 1].visited])]

\* Lines 69-73: the loop over the units of a chunk, which leaves the table
\* filtered and new_count the number of slots kept.
VisitUnits(slots, chunk, keep) ==
    LET pages == PagesOf(chunk)
        results == [page \in 0 .. (pages - 1) |-> SlotSetIterate(slots[page], keep)]
    IN  [slots     |-> [page \in 0 .. (pages - 1) |-> results[page].set],
         new_count |-> SumCounts(results, pages),
         visited   |-> Flatten([i \in 1 .. pages |-> results[i - 1].visited])]

\* Lines 62-65: the iterator is set up.
IterateBegin(direction, keep) ==
    /\ ~dcheck_failed
    /\ scanning = NULL
    /\ scanning' = [direction |-> direction, keep |-> keep,
                    it |-> MemoryChunkIterator(IterateMode(direction)),
                    new_count |-> -1]
    /\ lastOp' = Op("IterateBegin", direction, "none", 0, 0, 0, keep, FALSE)
    /\ visited' = <<>> /\ called' = <<>>
    /\ UNCHANGED <<tables, mem, top_, recorded, instance, dcheck_failed>>

\* Lines 66-73: the next chunk is taken, and if it has a table, its units are
\* visited.
IterateVisit ==
    /\ ~dcheck_failed
    /\ scanning # NULL
    /\ scanning.new_count = -1 /\ scanning.it # <<>>
    /\ LET direction == scanning.direction
           chunk == Head(scanning.it)
           slots == GetSlotSet(direction, chunk)
           done == VisitUnits(slots, chunk, scanning.keep)
       IN  /\ IF slots = NULL
              THEN /\ scanning' = [scanning EXCEPT !.it = Tail(@)]
                   /\ UNCHANGED <<old_to_new_slots, old_to_old_slots, visited>>
              ELSE /\ scanning' = [scanning EXCEPT !.new_count = done.new_count]
                   /\ StoreSlotSets(direction,
                          [SlotSetsOf(direction) EXCEPT ![chunk] = done.slots])
                   /\ visited' = visited \o done.visited
           /\ lastOp' = Op("IterateVisit", direction, chunk, 0, 0, 0,
                           scanning.keep, slots # NULL)
    /\ called' = <<>>
    /\ UNCHANGED <<typed_old_to_old_slots, mem, top_, recorded, instance,
                   dcheck_failed>>

\* Lines 74-76: the table of the chunk is released if no slot was kept. present
\* tells whether a table that records a slot was released.
IterateRelease ==
    /\ ~dcheck_failed
    /\ scanning # NULL
    /\ scanning.new_count >= 0
    /\ LET direction == scanning.direction
           chunk == Head(scanning.it)
       IN  /\ IF scanning.new_count = 0
              THEN StoreSlotSets(direction,
                       [SlotSetsOf(direction) EXCEPT ![chunk] = NULL])
              ELSE UNCHANGED <<old_to_new_slots, old_to_old_slots>>
           /\ lastOp' = Op("IterateRelease", direction, chunk, 0, 0, 0, scanning.keep,
                           scanning.new_count = 0
                           /\ RecordedAddrs(direction, chunk) # {})
    /\ scanning' = [scanning EXCEPT !.it = Tail(@), !.new_count = -1]
    /\ UNCHANGED <<typed_old_to_old_slots, mem, top_, recorded, instance,
                   dcheck_failed, visited, called>>

\* Line 66: it.next() returns nullptr, Iterate returns.
IterateEnd ==
    /\ ~dcheck_failed
    /\ scanning # NULL
    /\ scanning.new_count = -1 /\ scanning.it = <<>>
    /\ scanning' = NULL
    /\ lastOp' = Op("IterateEnd", scanning.direction, "none", 0, 0, 0,
                    scanning.keep, FALSE)
    /\ UNCHANGED <<tables, mem, top_, recorded, instance, dcheck_failed,
                   visited, called>>

\* A scan of RememberedSet<OLD_TO_NEW> and the write barrier of the mutator,
\* with nothing to keep them apart.
InitRace == InitHeap /\ instance = OLD_TO_NEW

NextRace ==
    \/ \E a \in WrapperSlots : Insert(instance, ChunkOf(a), a)
    \/ \E a \in WrapperSlots : Remove(instance, ChunkOf(a), a)
    \/ \E keep \in SUBSET WrapperSlots : IterateBegin(instance, keep)
    \/ IterateVisit
    \/ IterateRelease
    \/ IterateEnd

SpecRace == InitRace /\ [][NextRace]_vars

(***************************************************************************)
(* LocalSlotsBuffer: a chain of nodes of kBufferSize entries, the head     *)
(* node (top_) first. An entry below NUMBER_OF_SLOT_TYPES is a tag marker, *)
(* any other entry an address.                                             *)
(***************************************************************************)
\* Node::remaining_free_slots()
remaining_free_slots(node) == kBufferSize - node.count

\* Mutant of EnsureSpaceFor: room for one entry is taken to be enough.
EnsureSpaceForOne(chain, count) ==
    IF remaining_free_slots(Head(chain)) < 1 THEN <<NewNode>> \o chain
    ELSE chain

\* LocalSlotsBuffer::EnsureSpaceFor(count): the chain afterwards.
EnsureSpaceFor(chain, count) ==
    IF remaining_free_slots(Head(chain)) < count THEN <<NewNode>> \o chain
    ELSE chain

\* LocalSlotsBuffer::Insert(entry): top_->buffer[top_->count++] = entry.
BufferInsert(chain, entry) ==
    LET top == Head(chain)
    IN  <<[count  |-> top.count + 1,
           buffer |-> [top.buffer EXCEPT ![top.count] = entry]]>> \o Tail(chain)

\* LocalSlotsBuffer::Record(addr)
RecordUntyped(addr) ==
    /\ ~dcheck_failed
    /\ Len(recorded) < MaxRecords
    /\ addr >= NUMBER_OF_SLOT_TYPES
    /\ top_' = BufferInsert(EnsureSpaceFor(top_, 1), addr)
    /\ recorded' = Append(recorded, <<addr>>)
    /\ lastOp' = Op("Record", "none", "none", addr, 0, 0, {}, FALSE)
    /\ visited' = <<>> /\ called' = <<>>
    /\ UNCHANGED <<tables, mem, instance, dcheck_failed, scanning>>

\* Mutant of RecordTyped: room is made for the tag and for the address one at a
\* time, so the pair can end up in two nodes.
RecordTypedSplit(type, addr) ==
    /\ ~dcheck_failed
    /\ Len(recorded) < MaxRecords
    /\ addr >= NUMBER_OF_SLOT_TYPES
    /\ top_' = BufferInsert(EnsureSpaceFor(BufferInsert(EnsureSpaceFor(top_, 1), type), 1),
                            addr)
    /\ recorded' = Append(recorded, <<type, addr>>)
    /\ lastOp' = Op("RecordTyped", "none", "none", addr, 0, type, {}, FALSE)
    /\ visited' = <<>> /\ called' = <<>>
    /\ UNCHANGED <<tables, mem, instance, dcheck_failed, scanning>>

\* LocalSlotsBuffer::Record(type, addr)
RecordTyped(type, addr) ==
    /\ ~dcheck_failed
    /\ Len(recorded) < MaxRecords
    /\ addr >= NUMBER_OF_SLOT_TYPES
    /\ top_' = BufferInsert(BufferInsert(EnsureSpaceFor(top_, 2), type), addr)
    /\ recorded' = Append(recorded, <<type, addr>>)
    /\ lastOp' = Op("RecordTyped", "none", "none", addr, 0, type, {}, FALSE)
    /\ visited' = <<>> /\ called' = <<>>
    /\ UNCHANGED <<tables, mem, instance, dcheck_failed, scanning>>

\* Mutant of EntryStream: the chain is read from its oldest node.
EntryStreamOldestFirst(chain) ==
    Flatten([n \in 1 .. Len(chain) |->
                [i \in 1 .. chain[Len(chain) + 1 - n].count |->
                    chain[Len(chain) + 1 - n].buffer[i - 1]]])

\* The entries Iterate reads, in the order it reads them: node after node from
\* top_ along next, buffer[0] .. buffer[count - 1] of each.
EntryStream(chain) ==
    Flatten([n \in 1 .. Len(chain) |->
                [i \in 1 .. chain[n].count |-> chain[n].buffer[i - 1]]])

RECURSIVE DecodeStickyTyped(_, _, _)
\* Mutant of Decode: typed is not reset after a typed callback.
DecodeStickyTyped(stream, typed, type) ==
    IF stream = <<>> THEN <<>>
    ELSE LET entry == Head(stream)
         IN  IF entry < NUMBER_OF_SLOT_TYPES
             THEN DecodeStickyTyped(Tail(stream), TRUE, entry)
             ELSE IF typed
             THEN <<<<type, entry>>>> \o DecodeStickyTyped(Tail(stream), TRUE, type)
             ELSE <<<<entry>>>> \o DecodeStickyTyped(Tail(stream), FALSE, type)

RECURSIVE Decode(_, _, _)
\* The loop body of Iterate, lines 249-262, over the entries left to read: the
\* calls it makes, <<addr>> for untyped_callback(addr) and <<type, addr>> for
\* typed_callback(type, addr).
Decode(stream, typed, type) ==
    IF stream = <<>> THEN <<>>
    ELSE LET entry == Head(stream)
         IN  IF entry < NUMBER_OF_SLOT_TYPES
             THEN Decode(Tail(stream), TRUE, entry)
             ELSE IF typed
             THEN <<<<type, entry>>>> \o Decode(Tail(stream), FALSE, type)
             ELSE <<<<entry>>>> \o Decode(Tail(stream), FALSE, type)

\* LocalSlotsBuffer::Iterate(untyped_callback, typed_callback)
BufferIterate ==
    /\ ~dcheck_failed
    /\ visited' = Decode(EntryStream(top_), FALSE, 0)
    /\ lastOp' = Op("BufferIterate", "none", "none", 0, 0, 0, {}, FALSE)
    /\ called' = <<>>
    /\ UNCHANGED <<tables, mem, bufvars, dcheck_failed>>

\* The addresses recorded in the runs of the buffer: the smallest value that is
\* not a tag marker, and the next.
BufferAddrs == NUMBER_OF_SLOT_TYPES .. (NUMBER_OF_SLOT_TYPES + 1)

InitBuffer == InitHeap /\ instance = OLD_TO_OLD

NextBuffer ==
    \/ \E addr \in BufferAddrs : RecordUntyped(addr)
    \/ \E type \in SlotTypes, addr \in BufferAddrs : RecordTyped(type, addr)
    \/ BufferIterate

SpecBuffer == InitBuffer /\ [][NextBuffer]_vars

(***************************************************************************)
(* Properties.                                                             *)
(***************************************************************************)
\* The number of times x occurs in the sequence s.
Count(s, x) == Cardinality({i \in 1 .. Len(s) : s[i] = x})

\* The slots recorded in the chunks a scan of the direction visits.
RecordedInScope(direction) ==
    UNION {RecordedAddrs(direction, chunk) : chunk \in ScanScope(direction)}

IsOp(op, direction) == lastOp'.op = op /\ lastOp'.direction = direction

OutsideRange(direction, page, start, end) ==
    {a \in RecordedAddrs(direction, page) : ~(start <= a /\ a < end)}

RangeRemoved(d, page) ==
    /\ RecordedAddrs(d, page)' =
           OutsideRange(d, page, lastOp'.addr, lastOp'.end)
    /\ \A other \in Chunks \ {page} : GetSlotSet(d, other)' = GetSlotSet(d, other)
    /\ GetSlotSet(d, page) = NULL => GetSlotSet(d, page)' = NULL
    /\ ~dcheck_failed'

\* C3 as stated: for start < end <= region size RemoveRange removes the recorded
\* slots of [start, end) and keeps the others, in regions of every size.
C3_AsStated ==
    [][\A d \in PointerDirection, page \in Chunks :
        (IsOp("RemoveRange", d) /\ lastOp'.chunk = page) => RangeRemoved(d, page)
      ]_vars

\* C3, amended: for start < end <= kPageSize (offsets in the region) RemoveRange
\* removes the recorded slots of [start, end) and keeps every other slot, those
\* of the later units of a large region included; without a table it does
\* nothing.
C3_RemoveRangeFirstUnit ==
    [][\A d \in PointerDirection, page \in Chunks :
        (/\ IsOp("RemoveRange", d) /\ lastOp'.chunk = page
         /\ lastOp'.end - ChunkAddress(page) <= kPageSize) => RangeRemoved(d, page)
      ]_vars

\* C3 witness: a range of the first unit of the large chunk was removed, with a
\* slot in it, and a slot of the second unit is still recorded.
C3_Witness ==
    /\ lastOp.op = "RemoveRange" /\ lastOp.present /\ lastOp.chunk = "lo"
    /\ lastOp.end - ChunkAddress("lo") <= kPageSize
    /\ \E a \in RecordedAddrs(lastOp.direction, "lo") :
           a >= ChunkAddress("lo") + kPageSize

\* C4: a scan calls the callback once for every slot recorded in a chunk in
\* scope; afterwards a scanned chunk records the slots the callback kept, and
\* its table is released exactly when it kept none, over all units.
C4_IterateFilters ==
    [][\A d \in PointerDirection :
        IsOp("Iterate", d) =>
            /\ \A a \in AllAddrs :
                   Count(visited', a) = IF a \in RecordedInScope(d) THEN 1 ELSE 0
            /\ \A chunk \in ScanScope(d) :
                   /\ RecordedAddrs(d, chunk)' =
                          RecordedAddrs(d, chunk) \cap lastOp'.keep
                   /\ GetSlotSet(d, chunk) # NULL =>
                          ((GetSlotSet(d, chunk)' = NULL) <=>
                           (RecordedAddrs(d, chunk) \cap lastOp'.keep = {}))
                   /\ GetSlotSet(d, chunk) = NULL => GetSlotSet(d, chunk)' = NULL
      ]_vars

\* C4 witness: a scan visited a slot in each unit of the large chunk and kept
\* only the one of the second unit; the table is still there, its first unit
\* empty.
C4_Witness ==
    /\ lastOp.op = "Iterate"
    /\ GetSlotSet(lastOp.direction, "lo") # NULL
    /\ GetSlotSet(lastOp.direction, "lo")[0].slots = {}
    /\ GetSlotSet(lastOp.direction, "lo")[1].slots # {}
    /\ Len(visited) = 2
    /\ SeqToSet(visited) \subseteq ChunkAddrs("lo")

\* C5: a scan whose callback removes everything leaves no table in any scanned
\* chunk; a scan over chunks without tables calls nothing and changes nothing;
\* and a table comes into being only in Insert (InsertTyped for a typed one).
C5_RemoveAllReleases ==
    [][/\ \A d \in PointerDirection :
            /\ (IsOp("Iterate", d) /\ lastOp'.keep = {}) =>
                   \A chunk \in ScanScope(d) : GetSlotSet(d, chunk)' = NULL
            /\ (IsOp("Iterate", d)
                /\ \A chunk \in ScanScope(d) : GetSlotSet(d, chunk) = NULL) =>
                   /\ visited' = <<>>
                   /\ SlotSetsOf(d)' = SlotSetsOf(d)
            /\ \A chunk \in Chunks :
                   (GetSlotSet(d, chunk) = NULL /\ GetSlotSet(d, chunk)' # NULL) =>
                       (IsOp("Insert", d) /\ lastOp'.chunk = chunk)
       /\ \A chunk \in Chunks :
              (typed_old_to_old_slots[chunk] = NULL
               /\ typed_old_to_old_slots'[chunk] # NULL) =>
                  (lastOp'.op = "InsertTyped" /\ lastOp'.chunk = chunk)
      ]_vars

\* C5 witness: a remove-everything scan visited two slots and no table is left.
C5_Witness ==
    /\ lastOp.op = "Iterate" /\ lastOp.keep = {}
    /\ Len(visited) = 2
    /\ \A chunk \in Chunks : GetSlotSet(lastOp.direction, chunk) = NULL

\* C6: in a wrapper scan that runs to its end, the callback is called once for a
\* visited slot that points into from-space and not at all for any other slot,
\* and a visited slot stays recorded exactly when it pointed into from-space
\* before the callback and points into to-space after it.
C6_WrapperDecision ==
    [][(lastOp'.op = "IterateWithWrapper" /\ ~dcheck_failed') =>
        \A a \in AllAddrs :
            IF a \in RecordedInScope(OLD_TO_NEW)
            THEN /\ Count(visited', a) = 1
                 /\ Count(called', a) = IF InFromSpace(mem[a]) THEN 1 ELSE 0
                 /\ (a \in AllRecorded(OLD_TO_NEW)') <=>
                        (InFromSpace(mem[a]) /\ InToSpace(mem'[a]))
            ELSE /\ Count(visited', a) = 0 /\ Count(called', a) = 0
                 /\ mem'[a] = mem[a]
      ]_vars

\* C6 witness: the wrapper called the callback for two slots and kept one of
\* them; the other no longer is recorded.
C6_Witness ==
    /\ lastOp.op = "IterateWithWrapper" /\ ~dcheck_failed
    /\ Len(called) = 2
    /\ Cardinality(AllRecorded(OLD_TO_NEW)) = 1
    /\ \A a \in AllRecorded(OLD_TO_NEW) : InToSpace(mem[a])

\* The typed entries <<type, address>> recorded for a chunk.
TypedOf(chunk) == TypedIn(typed_old_to_old_slots[chunk])

C8_RemoveRangeTyped ==
    [][\A page \in Chunks :
        (lastOp'.op = "RemoveRangeTyped" /\ lastOp'.chunk = page) =>
            /\ TypedOf(page)' =
                   {e \in TypedOf(page) :
                       ~(lastOp'.addr <= e[2] /\ e[2] < lastOp'.end)}
            /\ \A other \in Chunks \ {page} :
                   typed_old_to_old_slots'[other] = typed_old_to_old_slots[other]
            /\ typed_old_to_old_slots[page] = NULL =>
                   typed_old_to_old_slots'[page] = NULL
            /\ UNCHANGED <<old_to_new_slots, old_to_old_slots>>
      ]_vars

\* C8 witness: a typed range removal took an entry out and left the entry at
\* the end address of the range in place.
C8_Witness ==
    /\ lastOp.op = "RemoveRangeTyped" /\ lastOp.present
    /\ \E e \in TypedOf(lastOp.chunk) : e[2] = lastOp.end

\* C9: ClearAll leaves no old-to-old table and no typed table in any chunk; a
\* scan over chunks without tables calls nothing; and a table comes back only
\* with an insert.
C9_ClearAll ==
    [][/\ lastOp'.op = "ClearAll" =>
            \A chunk \in Chunks : /\ old_to_old_slots'[chunk] = NULL
                                  /\ typed_old_to_old_slots'[chunk] = NULL
       /\ (IsOp("Iterate", OLD_TO_OLD)
           /\ \A chunk \in Chunks : old_to_old_slots[chunk] = NULL) =>
               visited' = <<>> /\ old_to_old_slots' = old_to_old_slots
       /\ (lastOp'.op = "IterateTyped"
           /\ \A chunk \in Chunks : typed_old_to_old_slots[chunk] = NULL) =>
               visited' = <<>> /\ typed_old_to_old_slots' = typed_old_to_old_slots
       /\ \A chunk \in Chunks :
            /\ (old_to_old_slots[chunk] = NULL /\ old_to_old_slots'[chunk] # NULL) =>
                   (IsOp("Insert", OLD_TO_OLD) /\ lastOp'.chunk = chunk)
            /\ (typed_old_to_old_slots[chunk] = NULL
                /\ typed_old_to_old_slots'[chunk] # NULL) =>
                   (lastOp'.op = "InsertTyped" /\ lastOp'.chunk = chunk)
      ]_vars

\* C9 witness: ClearAll ran on a heap that had a table, and no table is left.
C9_Witness ==
    /\ lastOp.op = "ClearAll" /\ lastOp.present
    /\ \A chunk \in Chunks : /\ old_to_old_slots[chunk] = NULL
                             /\ typed_old_to_old_slots[chunk] = NULL

\* C10: after Iterate on the buffer, every untyped address and every (tag,
\* address) pair has been handed to its callback as many times as it was
\* recorded, and nothing else has been handed to a callback.
C10_BufferLossless ==
    lastOp.op = "BufferIterate" =>
        /\ Len(visited) = Len(recorded)
        /\ \A e \in SeqToSet(recorded) \cup SeqToSet(visited) :
               Count(visited, e) = Count(recorded, e)

\* C10 witness: Iterate ran over a chain of three nodes that holds typed and
\* untyped records, one of them recorded twice.
C10_Witness ==
    /\ lastOp.op = "BufferIterate"
    /\ Len(top_) = 3
    /\ \E i, j \in 1 .. Len(recorded) : i # j /\ recorded[i] = recorded[j]
    /\ \E i, j \in 1 .. Len(recorded) : Len(recorded[i]) = 1 /\ Len(recorded[j]) = 2

\* A tag marker: an entry below NUMBER_OF_SLOT_TYPES.
IsTag(entry) == entry < NUMBER_OF_SLOT_TYPES

\* C11: in every state of the buffer every tag marker of a node is followed, in
\* the same node, by an address, so that no two tag markers are adjacent, no
\* node ends with a tag marker and no pair lies in two nodes: Iterate starts
\* and ends every node with no tag pending.
C11_StreamInvariant ==
    \A n \in 1 .. Len(top_) :
        /\ top_[n].count \in 0 .. kBufferSize
        /\ \A i \in 0 .. (top_[n].count - 1) :
               IsTag(top_[n].buffer[i]) =>
                   /\ i + 1 < top_[n].count
                   /\ ~IsTag(top_[n].buffer[i + 1])
        /\ top_[n].count > 0 => ~IsTag(top_[n].buffer[top_[n].count - 1])

\* C11 witness: a typed record did not fit in the one entry left of a node and
\* went, tag and address, to a new head node.
C11_Witness ==
    /\ Len(top_) >= 2
    /\ top_[2].count = kBufferSize - 1
    /\ top_[1].count >= 2
    /\ IsTag(top_[1].buffer[0]) /\ ~IsTag(top_[1].buffer[1])
    /\ lastOp.op = "RecordTyped"

\* The operations the spec allows for OLD_TO_OLD only.
TypedOps == {"InsertTyped", "RemoveRangeTyped", "IterateTyped", "ClearAll"}

\* C12: no typed operation and no ClearAll runs for the OLD_TO_NEW direction.
C12_TypedRejected ==
    [][~(lastOp'.direction = OLD_TO_NEW /\ lastOp'.op \in TypedOps)]_vars

\* C12, in its effect: no step taken for the OLD_TO_NEW direction changes a
\* typed table.
C12_TypedTablesKept ==
    [][lastOp'.direction = OLD_TO_NEW =>
           typed_old_to_old_slots' = typed_old_to_old_slots]_vars

\* Whether a table is allocated and records nothing.
EmptyTable(slot_set) == slot_set # NULL /\ AddrsIn(slot_set) = {}
EmptyTypedTable(slots) == slots # NULL /\ TypedIn(slots) = {}

\* C13 as stated: in every state no chunk has an allocated table that records
\* no slot.
C13_AsStated ==
    \A chunk \in Chunks :
        /\ ~EmptyTable(old_to_new_slots[chunk])
        /\ ~EmptyTable(old_to_old_slots[chunk])
        /\ ~EmptyTypedTable(typed_old_to_old_slots[chunk])

\* C13, amended: a table comes into being only in Insert (InsertTyped) on its
\* chunk and then records the inserted slot; Remove, RemoveRange and
\* RemoveRangeTyped never release a table, whatever they leave in it; after a
\* scan every table of a chunk it covers is released or records a slot, and
\* after ClearAll no old-to-old and no typed table is left.
C13_TableLifecycle ==
    [][/\ \A d \in PointerDirection, chunk \in Chunks :
            /\ (GetSlotSet(d, chunk) = NULL /\ GetSlotSet(d, chunk)' # NULL) =>
                   /\ IsOp("Insert", d) /\ lastOp'.chunk = chunk
                   /\ lastOp'.addr \in RecordedAddrs(d, chunk)'
            /\ (GetSlotSet(d, chunk) # NULL /\ GetSlotSet(d, chunk)' = NULL) =>
                   \/ IsOp("Iterate", d)
                   \/ d = OLD_TO_OLD /\ lastOp'.op = "ClearAll"
            /\ (IsOp("Iterate", d) /\ ~(d = OLD_TO_NEW /\ chunk = "code")) =>
                   ~EmptyTable(GetSlotSet(d, chunk))'
       /\ \A chunk \in Chunks :
            /\ (typed_old_to_old_slots[chunk] = NULL
                /\ typed_old_to_old_slots'[chunk] # NULL) =>
                   /\ lastOp'.op = "InsertTyped" /\ lastOp'.chunk = chunk
                   /\ <<lastOp'.type, lastOp'.addr>> \in TypedOf(chunk)'
            /\ (typed_old_to_old_slots[chunk] # NULL
                /\ typed_old_to_old_slots'[chunk] = NULL) =>
                   lastOp'.op \in {"IterateTyped", "ClearAll"}
            /\ (lastOp'.op = "IterateTyped" /\ chunk # "map") =>
                   ~EmptyTypedTable(typed_old_to_old_slots[chunk])'
            /\ lastOp'.op = "ClearAll" =>
                   /\ old_to_old_slots'[chunk] = NULL
                   /\ typed_old_to_old_slots'[chunk] = NULL
      ]_vars

\* C13 witness: Remove took the last slot out of a table, and the table is
\* still allocated.
C13_Witness ==
    /\ lastOp.op = "Remove" /\ lastOp.present
    /\ EmptyTable(GetSlotSet(lastOp.direction, lastOp.chunk))

\* The typed entries and the untyped slots a scan called its callback with.
VisitedSet == SeqToSet(visited)

\* C14: an OLD_TO_OLD scan calls the callback for the slots of every chunk; an
\* OLD_TO_NEW scan calls it for the slots of every chunk but the code page and
\* leaves the old-to-new table of the code page as it is; a typed scan calls
\* it for the entries of every chunk but the map page and leaves the typed
\* table of the map page as it is.
C14_ScanScope ==
    [][/\ IsOp("Iterate", OLD_TO_OLD) =>
              /\ VisitedSet' = AllRecorded(OLD_TO_OLD)
              /\ \A chunk \in Chunks :
                     RecordedAddrs(OLD_TO_OLD, chunk)' =
                         RecordedAddrs(OLD_TO_OLD, chunk) \cap lastOp'.keep
       /\ IsOp("Iterate", OLD_TO_NEW) =>
              /\ VisitedSet' = AllRecorded(OLD_TO_NEW) \ ChunkAddrs("code")
              /\ \A chunk \in Chunks \ {"code"} :
                     RecordedAddrs(OLD_TO_NEW, chunk)' =
                         RecordedAddrs(OLD_TO_NEW, chunk) \cap lastOp'.keep
              /\ old_to_new_slots'["code"] = old_to_new_slots["code"]
       /\ lastOp'.op = "IterateTyped" =>
              /\ VisitedSet' = AllTyped \ TypedOf("map")
              /\ \A chunk \in Chunks \ {"map"} :
                     TypedOf(chunk)' = TypedOf(chunk) \cap lastOp'.keep
              /\ typed_old_to_old_slots'["map"] = typed_old_to_old_slots["map"]
      ]_vars

\* C14 witness: an OLD_TO_NEW scan whose callback removes everything visited a
\* slot, and the slot recorded for the code page is still there.
C14_Witness ==
    /\ lastOp.op = "Iterate" /\ lastOp.direction = OLD_TO_NEW /\ lastOp.keep = {}
    /\ visited # <<>>
    /\ RecordedAddrs(OLD_TO_NEW, "code") # {}
    /\ AllRecorded(OLD_TO_NEW) \subseteq ChunkAddrs("code")

\* C14 witness, typed: a typed scan whose callback removes everything visited
\* an entry, and the entry recorded for the map page is still there.
C14_WitnessTyped ==
    /\ lastOp.op = "IterateTyped" /\ lastOp.keep = {}
    /\ visited # <<>>
    /\ TypedOf("map") # {}

\* The operations that take a chunk.
ChunkOps == {"Insert", "Remove", "RemoveRange", "InsertTyped", "RemoveRangeTyped"}

\* The operations on the untyped table of a direction.
UntypedOps == {"Insert", "Remove", "RemoveRange", "Iterate"}

\* C19: an untyped operation changes the table of its direction only, and no
\* typed table; no OLD_TO_OLD operation, ClearAll and the typed ones included,
\* changes an old-to-new table; InsertTyped, RemoveRangeTyped and IterateTyped
\* change typed tables only; and an operation that takes a chunk changes no
\* table of another chunk.
C19_DirectionIsolation ==
    [][/\ (lastOp'.op \in UntypedOps /\ lastOp'.direction = OLD_TO_NEW) =>
              UNCHANGED <<old_to_old_slots, typed_old_to_old_slots>>
       /\ (lastOp'.op \in UntypedOps /\ lastOp'.direction = OLD_TO_OLD) =>
              UNCHANGED <<old_to_new_slots, typed_old_to_old_slots>>
       /\ (lastOp'.op \in TypedOps /\ lastOp'.direction = OLD_TO_OLD) =>
              UNCHANGED old_to_new_slots
       /\ lastOp'.op \in TypedOps \ {"ClearAll"} =>
              UNCHANGED <<old_to_new_slots, old_to_old_slots>>
       /\ lastOp'.op \in ChunkOps =>
              \A other \in Chunks \ {lastOp'.chunk} :
                  /\ old_to_new_slots'[other] = old_to_new_slots[other]
                  /\ old_to_old_slots'[other] = old_to_old_slots[other]
                  /\ typed_old_to_old_slots'[other] = typed_old_to_old_slots[other]
      ]_vars

\* C19 witness: a slot recorded in both directions was removed from the
\* old-to-new table and is still in the old-to-old table of the chunk.
C19_Witness ==
    /\ lastOp.op = "Remove" /\ lastOp.direction = OLD_TO_NEW /\ lastOp.present
    /\ lastOp.addr \in RecordedAddrs(OLD_TO_OLD, lastOp.chunk)
    /\ lastOp.addr \notin RecordedAddrs(OLD_TO_NEW, lastOp.chunk)

\* C15: when a wrapper scan has run to its end, every slot still recorded in a
\* chunk it scanned points into to-space, and every slot it visited that does
\* not point into to-space after the callback is no longer recorded.
C15_EvacuationPostcondition ==
    [][(lastOp'.op = "IterateWithWrapper" /\ ~dcheck_failed') =>
        /\ \A chunk \in Chunks \ {"code"} :
               \A a \in RecordedAddrs(OLD_TO_NEW, chunk)' : InToSpace(mem'[a])
        /\ \A a \in SeqToSet(visited') :
               ~InToSpace(mem'[a]) => a \notin AllRecorded(OLD_TO_NEW)'
        /\ AllRecorded(OLD_TO_NEW)' \subseteq AllRecorded(OLD_TO_NEW)
      ]_vars

\* C15 witness: a wrapper scan visited two slots and ran to its end; the one
\* that is left points into to-space and the other, which never pointed into
\* from-space, is gone.
C15_Witness ==
    /\ lastOp.op = "IterateWithWrapper" /\ ~dcheck_failed
    /\ Len(visited) = 2 /\ Len(called) = 1
    /\ AllRecorded(OLD_TO_NEW) = SeqToSet(called)
    /\ \A a \in SeqToSet(visited) :
           IF a \in SeqToSet(called) THEN InToSpace(mem[a]) ELSE mem[a] = "old"

RECURSIVE EntriesOf(_)
\* The number of buffer entries a sequence of Record calls takes: one for an
\* address, two for a tag and its address.
EntriesOf(records) ==
    IF records = <<>> THEN 0 ELSE Len(Head(records)) + EntriesOf(Tail(records))

\* The number of leading Record calls that take n entries together.
RecordsFor(records, n) ==
    CHOOSE k \in 0 .. Len(records) : EntriesOf(SubSeq(records, 1, k)) = n

RECURSIVE NewestNodeFirst(_, _)
\* The Record calls, regrouped: those that went to the newest node first, the
\* calls of one node in the order they were made. The oldest node, the last of
\* the chain, holds the earliest calls, as many as fill its count.
NewestNodeFirst(chain, records) ==
    IF chain = <<>> THEN <<>>
    ELSE LET k == RecordsFor(records, chain[Len(chain)].count)
         IN  NewestNodeFirst(SubSeq(chain, 1, Len(chain) - 1),
                             SubSeq(records, k + 1, Len(records)))
             \o SubSeq(records, 1, k)

\* C16: Iterate dispatches the records of a node created later before those of
\* a node created earlier, and the records of one node in the order they were
\* recorded.
C16_TraversalOrder ==
    lastOp.op = "BufferIterate" => visited = NewestNodeFirst(top_, recorded)

\* C16 witness: Iterate ran over two nodes; the two records of the head node,
\* made last, were dispatched first and in their order, the record of the
\* first node after them.
C16_Witness ==
    /\ lastOp.op = "BufferIterate"
    /\ Len(top_) = 2 /\ Len(recorded) = 3
    /\ visited = <<recorded[2], recorded[3], recorded[1]>>
    /\ recorded[1] # recorded[2] /\ recorded[2] # recorded[3]

\* The number of entries the Record call of a step asks room for.
Requested(op) == IF op = "RecordTyped" THEN 2 ELSE 1

\* The entries a Record call writes, in order.
Written(op) ==
    IF op.op = "RecordTyped" THEN <<op.type, op.addr>> ELSE <<op.addr>>

\* C17: the count of every node is within 0 .. kBufferSize; a Record call
\* writes the head node only, right after the entries it holds; a new head
\* node, whose chain is the old chain unchanged, comes exactly when the head
\* has fewer free entries than the 1 or 2 asked for; and a node that is not
\* the head holds kBufferSize or kBufferSize - 1 entries.
C17_GrowthAndBounds ==
    [][/\ \A n \in 1 .. Len(top_) : top_[n].count \in 0 .. kBufferSize
       /\ \A n \in 1 .. Len(top_') : top_'[n].count \in 0 .. kBufferSize
       /\ \A n \in 2 .. Len(top_') :
              top_'[n].count \in {kBufferSize - 1, kBufferSize}
       /\ lastOp'.op \notin {"Record", "RecordTyped"} => top_' = top_
       /\ lastOp'.op \in {"Record", "RecordTyped"} =>
              LET count == Requested(lastOp'.op)
                  grows == kBufferSize - top_[1].count < count
                  base == IF grows THEN 0 ELSE top_[1].count
              IN  /\ Len(top_') = IF grows THEN Len(top_) + 1 ELSE Len(top_)
                  /\ Tail(top_') = IF grows THEN top_ ELSE Tail(top_)
                  /\ top_'[1].count = base + count
                  /\ \A i \in 0 .. (base - 1) : top_'[1].buffer[i] = top_[1].buffer[i]
                  /\ \A i \in 1 .. count :
                         top_'[1].buffer[base + i - 1] = Written(lastOp')[i]
      ]_vars

\* C17 witness: a chain of three nodes, the oldest full and the next one entry
\* short of full, because a pair did not fit in the one entry left.
C17_Witness ==
    /\ Len(top_) = 3
    /\ top_[3].count = kBufferSize
    /\ top_[2].count = kBufferSize - 1
    /\ top_[1].count = 2

ToSpaceSlots == {a \in RecordedInScope(OLD_TO_NEW) : InToSpace(mem[a])}

C20_NoSlotLostUnlessRaced ==
    [][\A d \in PointerDirection :
        /\ \A a \in AllRecorded(d) \ AllRecorded(d)' :
              \/ IsOp("Remove", d) /\ lastOp'.addr = a
              \/ IsOp("RemoveRange", d)
              \/ IsOp("IterateVisit", d) /\ a \notin lastOp'.keep
              \/ /\ IsOp("IterateRelease", d) /\ Contains(lastOp'.chunk, a)
                 /\ lastOp.op \in {"Insert", "Remove"}
        /\ (IsOp("IterateRelease", d) /\ lastOp.op = "IterateVisit") =>
              AllRecorded(d)' = AllRecorded(d)
        /\ (IsOp("IterateRelease", d) /\ scanning.new_count = 0) =>
              \A chunk \in Chunks :
                  lastOp'.chunk = chunk => GetSlotSet(d, chunk)' = NULL
        /\ (IsOp("IterateRelease", d) /\ scanning.new_count # 0) =>
              SlotSetsOf(d)' = SlotSetsOf(d)
      ]_vars

\* C20 witness: a slot inserted after the units of its chunk had been visited
\* with nothing kept was discarded with the table.
C20_Witness ==
    /\ lastOp.op = "IterateRelease" /\ lastOp.present
    /\ GetSlotSet(lastOp.direction, lastOp.chunk) = NULL

====
